---- MODULE Spec2Model ----
(***************************************************************************)
(* Model of z2k2: the credential pool (z2k2/session_manager.py), the       *)
(* jittered-TTL cache in its PostgreSQL and SQLite variants                *)
(* (z2k2/postgres_cache.py, z2k2/sqlite_cache.py), the cache-aside         *)
(* decorator `cached`, and the gateway helpers of app.py.                  *)
(*                                                                         *)
(* Scheduling: every endpoint in app.py is an `async def` run on one event *)
(* loop, so code between two `await`s is one atomic step.  The cache       *)
(* methods and get_session() contain no `await`.                           *)
(***************************************************************************)
EXTENDS Integers, Sequences, FiniteSets, TLC

(***************************************************************************)
(* Bounds                                                                  *)
(***************************************************************************)
MaxLines == 3
MaxCalls == 5
MaxTTL == 2
MaxJitter == 2
MaxTime == 5
MaxWrapperTime == 2
MaxGatewayTime == 2

None == "None"

(***************************************************************************)
(* session_manager.py                                                      *)
(***************************************************************************)
Tokens == {"tokA", "tokB", "tokC"}

\* One line of sessions.jsonl.  "valid" is a JSON object holding both keys;
\* "blank" is whitespace only; "badjson" does not parse; "nokey" is a JSON
\* object lacking oauth_token or oauth_token_secret; "notobject" is valid
\* JSON that is not an object (a list, a string, a number, null).
LineKinds == {"valid", "blank", "badjson", "nokey", "notobject"}
Lines == [kind : {"valid"}, tok : Tokens]
           \cup [kind : LineKinds \ {"valid"}, tok : {None}]

_TwitterSession(tok) == [oauth_token |-> tok, oauth_token_secret |-> tok]

RECURSIVE FilesUpTo(_)
FilesUpTo(n) ==
    IF n = 0 THEN {<<>>}
    ELSE LET shorter == FilesUpTo(n - 1)
         IN  shorter \cup {Append(f, l) : f \in {g \in shorter : Len(g) = n - 1}, l \in Lines}

\* A sessions.jsonl: either not found on any searched path, or its lines.
MissingFile == [exists |-> FALSE, lines |-> <<>>]
Files == {[exists |-> TRUE, lines |-> ls] : ls \in FilesUpTo(MaxLines)} \cup {MissingFile}

\* _load_sessions: the loop over the lines of the file.  acc is the state of
\* the loop: the sessions appended so far, the warnings printed, and the
\* exception that left the loop, if any.
RECURSIVE LoadLines(_, _, _)
LoadLines(lines, i, acc) ==
    IF i > Len(lines) THEN acc
    ELSE LET line == lines[i] IN
         CASE line.kind = "blank" -> LoadLines(lines, i + 1, acc)
           [] line.kind = "valid" ->
                LoadLines(lines, i + 1,
                          [acc EXCEPT !.sessions = Append(@, _TwitterSession(line.tok))])
           [] line.kind \in {"badjson", "nokey"} ->
                \* except (json.JSONDecodeError, KeyError): print warning; continue
                LoadLines(lines, i + 1, [acc EXCEPT !.warnings = @ + 1])
           [] line.kind = "notobject" ->
                \* session_data["oauth_token"] on a list/str/number/null raises
                \* TypeError, which the except clause does not catch
                [acc EXCEPT !.error = "TypeError"]

_load_sessions(sessions_file) ==
    IF ~sessions_file.exists
    THEN [sessions |-> <<>>, warnings |-> 0, error |-> "FileNotFoundError"]
    ELSE LET r == LoadLines(sessions_file.lines, 1, [sessions |-> <<>>, warnings |-> 0, error |-> None])
         IN  IF r.error = None /\ r.sessions = <<>>
             THEN [r EXCEPT !.error = "ValueError"]
             ELSE r

\* the index is not advanced
NextIndexStuck(i, n) == i
\* the index is advanced twice
NextIndexSkips(i, n) == (i + 2) % n
\* the index is advanced without wrapping around
NextIndexNoWrap(i, n) == i + 1
NextIndex(i, n) == (i + 1) % n

(***************************************************************************)
(* postgres_cache.py, sqlite_cache.py: the table `cache` and the methods   *)
(* of PostgresCache and SqliteCache as functions of the table.             *)
(***************************************************************************)
Keys == {"k1", "k2"}
Values == {"v1", "v2"}

\* json.dumps / json.loads of a cached value: the column holds JSON text.
Dumps(v) == [json |-> v]
Loads(text) == text.json

\* random.uniform(-ttl_jitter, ttl_jitter) is a float; draws are modelled in
\* units of 1/JitterScale second.
JitterScale == 2
Draws(jitter) == (0 - jitter * JitterScale) .. (jitter * JitterScale)

\* int(x) for x = num / JitterScale: truncation toward zero
IntTrunc(num) == IF num >= 0 THEN num \div JitterScale
                 ELSE 0 - ((0 - num) \div JitterScale)

_get_effective_ttl(t, jitter, draw) ==
    IF jitter = 0 THEN t ELSE IntTrunc(t * JitterScale + draw)

Row(k, v, ts) == [key |-> k, value |-> Dumps(v), timestamp |-> ts]
RowsFor(rows, k) == {r \in rows : r.key = k}
\* .first() / fetchone()
FirstRow(rows, k) == CHOOSE r \in RowsFor(rows, k) : TRUE

\* INSERT under the primary key on `key` (db_models.py, sqlite CREATE TABLE)
Insert(rows, row) ==
    IF RowsFor(rows, row.key) # {}
    THEN [rows |-> rows, error |-> "IntegrityError"]
    ELSE [rows |-> rows \cup {row}, error |-> None]

\* PgGet with the expiry test written >= instead of >
PgGetExpiresAtTTL(rows, k, t, eff) ==
    IF RowsFor(rows, k) = {} THEN [rows |-> rows, result |-> None]
    ELSE LET entry == FirstRow(rows, k) IN
         IF t - entry.timestamp >= eff
         THEN [rows |-> rows \ {entry}, result |-> None]
         ELSE [rows |-> rows, result |-> Loads(entry.value)]

\* PgGet that reports an expired entry absent but leaves it in the table
PgGetKeepsExpired(rows, k, t, eff) ==
    IF RowsFor(rows, k) = {} THEN [rows |-> rows, result |-> None]
    ELSE LET entry == FirstRow(rows, k) IN
         IF t - entry.timestamp > eff
         THEN [rows |-> rows, result |-> None]
         ELSE [rows |-> rows, result |-> Loads(entry.value)]
PgGet(rows, k, t, eff) ==
    IF RowsFor(rows, k) = {} THEN [rows |-> rows, result |-> None]
    ELSE LET entry == FirstRow(rows, k) IN
         IF t - entry.timestamp > eff
         THEN [rows |-> rows \ {entry}, result |-> None]
         ELSE [rows |-> rows, result |-> Loads(entry.value)]

\* SqGet that reports an expired row absent but leaves it in the table
SqGetKeepsExpired(rows, k, t, eff) ==
    IF RowsFor(rows, k) = {} THEN [rows |-> rows, result |-> None]
    ELSE LET row == FirstRow(rows, k) IN
         IF t - row.timestamp > eff
         THEN [rows |-> rows, result |-> None]
         ELSE [rows |-> rows, result |-> Loads(row.value)]

\* SqGet that stamps the row it serves with the time of the read
SqGetRefreshesTimestamp(rows, k, t, eff) ==
    IF RowsFor(rows, k) = {} THEN [rows |-> rows, result |-> None]
    ELSE LET row == FirstRow(rows, k) IN
         IF t - row.timestamp > eff
         THEN [rows |-> rows \ RowsFor(rows, k), result |-> None]
         ELSE [rows |-> (rows \ {row}) \cup {[row EXCEPT !.timestamp = t]},
               result |-> Loads(row.value)]
SqGet(rows, k, t, eff) ==
    IF RowsFor(rows, k) = {} THEN [rows |-> rows, result |-> None]
    ELSE LET row == FirstRow(rows, k) IN
         IF t - row.timestamp > eff
         THEN [rows |-> rows \ RowsFor(rows, k), result |-> None]
         ELSE [rows |-> rows, result |-> Loads(row.value)]

\* PgSet whose update branch forgets to refresh the timestamp
PgSetKeepsTimestamp(rows, k, v, t) ==
    IF RowsFor(rows, k) # {}
    THEN LET entry == FirstRow(rows, k) IN
         [rows |-> (rows \ {entry}) \cup {[entry EXCEPT !.value = Dumps(v)]},
          error |-> None]
    ELSE Insert(rows, Row(k, v, t))

\* set that inserts without looking for an existing row
PgSetBlindInsert(rows, k, v, t) == Insert(rows, Row(k, v, t))

PgSet(rows, k, v, t) ==
    IF RowsFor(rows, k) # {}
    THEN LET entry == FirstRow(rows, k) IN
         [rows |-> (rows \ {entry})
                      \cup {[entry EXCEPT !.value = Dumps(v), !.timestamp = t]},
          error |-> None]
    ELSE Insert(rows, Row(k, v, t))

\* INSERT OR REPLACE: conflicting rows are removed before the insert
SqSet(rows, k, v, t) == Insert(rows \ RowsFor(rows, k), Row(k, v, t))

PgDelete(rows, k) == rows \ RowsFor(rows, k)
\* DELETE without its WHERE clause
SqDeleteNoWhere(rows, k) == {}
SqDelete(rows, k) == rows \ RowsFor(rows, k)

\* clear_expired with the cutoff taken from the base TTL alone
PgClearExpiredBaseOnly(rows, t, base, jitter) ==
    LET cutoff_time == t - base
    IN  {r \in rows : ~(r.timestamp < cutoff_time)}

PgClearExpired(rows, t, base, jitter) ==
    LET max_ttl == base + jitter
        cutoff_time == t - max_ttl
    IN  {r \in rows : ~(r.timestamp < cutoff_time)}

\* the DELETE also takes the rows whose age equals the maximum TTL
SqClearExpiredAtBoundary(rows, t, base, jitter) ==
    LET max_ttl == base + jitter
    IN  {r \in rows : ~(t - r.timestamp >= max_ttl)}
SqClearExpired(rows, t, base, jitter) ==
    LET max_ttl == base + jitter
    IN  {r \in rows : ~(t - r.timestamp > max_ttl)}

PgClearAll(rows) == {}
SqClearAll(rows) == {}

(***************************************************************************)
(* The decorator `cached` (postgres_cache.py, sqlite_cache.py)             *)
(***************************************************************************)
WrapperCalls == {"w1", "w2"}

\* What the decorated coroutine can hand back: a payload, the upstream
\* envelope of an account that does not exist ({"data": {}}: no result node),
\* or Python None.
NotFoundEnvelope == "envelope-without-result"
ProducerResults == Values \cup {NotFoundEnvelope, None}
\* ... or the exception it raises (twitter_client.py)
ProducerErrors == {"RateLimitError", "TwitterAPIError"}

\* The positional arguments of a call.  A decorated method is called on a
\* TwitterClient, which carries the credential it was built with; a decorated
\* plain function gets the identity as its first argument.
Identities == {"alice", "bob"}
Str(s) == [type |-> "str", value |-> s, session |-> None]
Client(name, tok) == [type |-> "TwitterClient", value |-> name, session |-> tok]
Receivers == {Client("client1", "tokA"), Client("client2", "tokB")}
MethodArgs(receivers) == {<<r, Str(i)>> : r \in receivers, i \in Identities}
WrapperArgs == MethodArgs(Receivers) \cup {<<Str(i)>> : i \in Identities}
\* func.__name__ of the decorated coroutine
FuncName == "get_user_by_screen_name"
\* hasattr(obj, name): a client instance has its methods, a str has not
hasattr(obj, name) ==
    obj.type = "TwitterClient" /\ name \in {"get_user_by_screen_name", "get_user_tweets"}
\* the receiver is kept in the arguments handed to key_fn
func_argsKeepsSelf(args) == args
\* func_args = args[1:] if args and hasattr(args[0], func.__name__) else args
func_args(args) ==
    IF args # <<>> /\ hasattr(args[1], FuncName) THEN Tail(args) ELSE args
\* key_fn, the caller's key function: as in the decorator's example it
\* formats its first argument, and str() of a client names the instance
key_fn(fargs) ==
    CASE fargs[1].value \in {"alice", "client1"} -> "k1"
      [] fargs[1].value \in {"bob", "client2"} -> "k2"

\* A call: where it stands, and its arguments and cache key while it awaits
\* the producer
IdleCall == [pc |-> "idle", key |-> None, args |-> <<>>]

(***************************************************************************)
(* twitter_client.py, twitter_parser.py, app.py: the gateway               *)
(***************************************************************************)
Requests == {"r1", "r2"}
Endpoints == {"profile", "status"}
Handles == {"alice"}

\* rest_id of the account behind a handle
RestId(handle) == IF handle = "alice" THEN "42" ELSE "0"

\* The `data` of an upstream envelope: null, or an object without a result
\* node, or with a result node carrying rest_id, the discriminator __typename,
\* legacy.protected and legacy.screen_name (None: the key is missing)
NoResult == [shape |-> "object", result |-> FALSE, rest_id |-> None, typename |-> None,
             protected |-> None, screen_name |-> None]
NullData == [NoResult EXCEPT !.shape = "null"]
ResultNode(rest_id, typename, protected, screen_name) ==
    [shape |-> "object", result |-> TRUE, rest_id |-> rest_id, typename |-> typename,
     protected |-> protected, screen_name |-> screen_name]
\* ... of an account lookup
UserNodes(handle) ==
    {ResultNode(RestId(handle), "User", b, handle) : b \in {"true", "false", None}}
    \cup {ResultNode(RestId(handle), "UserUnavailable", None, None)}
\* ... of a timeline: the account embedded next to the timeline is missing,
\* the requested one, or another one
TimelineDatas ==
    {NoResult, NullData, ResultNode("99", "User", "true", "stale")}
    \cup {ResultNode(RestId(h), "User", None, h) : h \in Handles}

\* An HTTP exchange as _fetch sees it: the transport failed, or a response
\* arrived with a status, a body that is JSON or not, an `errors` key that is
\* absent, an empty list or a populated list, and `data`.
NetworkFailure == [transport |-> "error", status |-> 0, json |-> FALSE,
                   errors |-> "absent", data |-> NoResult]
HttpResponse(st, js, errs, d) ==
    [transport |-> "ok", status |-> st, json |-> js, errors |-> errs, data |-> d]
ErrorStatuses == {429, 503, 404, 500}
\* every exchange: any status with any body
Statuses == {200, 201, 301, 400, 404, 429, 500, 503}
Exchanges ==
    {NetworkFailure}
    \cup {HttpResponse(st, FALSE, "absent", NoResult) : st \in Statuses}
    \cup {HttpResponse(st, TRUE, e, d) :
             st \in Statuses, e \in {"absent", "empty", "populated"},
             d \in UserNodes("alice") \cup {NoResult}}
\* the exchanges the gateway is driven with
Responses(datas) ==
    {NetworkFailure}
    \cup {HttpResponse(st, FALSE, "absent", NoResult) : st \in ErrorStatuses}
    \cup {HttpResponse(200, FALSE, "absent", NoResult)}
    \cup {HttpResponse(200, TRUE, e, NoResult) : e \in {"empty", "populated"}}
    \cup {HttpResponse(200, TRUE, "absent", d) : d \in datas}

\* An exception with its status_code ({}: None) and the head of its message,
\* or the returned body
Raise(exc, code, message) ==
    [raised |-> exc, status_code |-> code, message |-> message, data |-> NoResult]
Return(d) == [raised |-> None, status_code |-> {}, message |-> None, data |-> d]

\* 429 is not looked at before raise_for_status()
_fetchNoRateLimitBranch(response) ==
    IF response.transport = "error" THEN Raise("TwitterAPIError", {}, "Request error")
    ELSE IF response.status = 503
         THEN Raise("TwitterAPIError", {}, "Service unavailable")
    ELSE IF response.status \notin 200..299
         THEN Raise("TwitterAPIError", {response.status}, "HTTP error")
    ELSE IF ~response.json THEN Raise("JSONDecodeError", {}, None)
    ELSE IF response.errors # "absent"
         THEN Raise("TwitterAPIError", {}, "Twitter API error")
    ELSE Return(response.data)
\* TwitterClient._fetch
_fetch(response) ==
    IF response.transport = "error" THEN Raise("TwitterAPIError", {}, "Request error")
    ELSE IF response.status = 429 THEN Raise("RateLimitError", {429}, "Rate limit exceeded")
    ELSE IF response.status = 503
         THEN Raise("TwitterAPIError", {}, "Service unavailable")
    ELSE IF response.status \notin 200..299
         THEN Raise("TwitterAPIError", {response.status}, "HTTP error")
    ELSE IF ~response.json THEN Raise("JSONDecodeError", {}, None)
    ELSE IF response.errors # "absent"
         THEN Raise("TwitterAPIError", {}, "Twitter API error")
    ELSE Return(response.data)

\* legacy.protected is read as True whenever the key is missing
_parse_userProtectedByDefault(user_data) ==
    [id |-> IF user_data.rest_id = None THEN "" ELSE user_data.rest_id,
     username |-> IF user_data.screen_name = None THEN "" ELSE user_data.screen_name,
     protected |-> (user_data.protected # "false"),
     suspended |-> (user_data.typename = "UserUnavailable")]
\* _parse_user: the fields of User the gateway reads
_parse_user(user_data) ==
    [id |-> IF user_data.rest_id = None THEN "" ELSE user_data.rest_id,
     username |-> IF user_data.screen_name = None THEN "" ELSE user_data.screen_name,
     protected |-> IF user_data.protected = None THEN FALSE
                   ELSE user_data.protected = "true",
     suspended |-> (user_data.typename = "UserUnavailable")]

NoUser == [id |-> None, username |-> None, protected |-> FALSE, suspended |-> FALSE]

\* parse_user_from_graphql: None when the envelope has no result node;
\* graphql_response.get("data", {}).get(...) raises when data is null
parse_user_from_graphql(graphql_response) ==
    IF graphql_response.shape = "null"
    THEN [raised |-> "AttributeError", user |-> NoUser]
    ELSE [raised |-> None,
          user |-> IF ~graphql_response.result THEN NoUser
                   ELSE _parse_user(graphql_response)]

\* get_user_data from its await on: the exception of the upstream call, or
\* what the parser makes of the envelope
get_user_data(r) ==
    IF r.raised # None THEN [raised |-> r.raised, user |-> NoUser]
    ELSE parse_user_from_graphql(r.data)

\* User(id="0", username="unknown", ...) of parse_profile_from_graphql
Placeholder == [id |-> "0", username |-> "unknown", protected |-> FALSE,
                suspended |-> FALSE]
\* parse_profile_from_graphql: the user of the profile (the timeline content
\* is not modelled here)
parse_profile_from_graphql(graphql_response) ==
    IF graphql_response.shape = "null"
    THEN [raised |-> "AttributeError", profile |-> [user |-> NoUser]]
    ELSE [raised |-> None,
          profile |-> [user |-> IF graphql_response.result
                                THEN _parse_user(graphql_response)
                                ELSE Placeholder]]

\* the profile keeps the user parsed from the timeline envelope
SetUserKeepsEmbedded(profile, user) == profile
\* profile.user = user
SetUser(profile, user) == [profile EXCEPT !.user = user]

\* What an endpoint answers with
NoBody == [kind |-> "none", absent |-> FALSE, protected |-> FALSE, suspended |-> FALSE,
           user |-> NoUser]
\* get_user_status: {"absent": True} or {"protected": .., "suspended": ..}
StatusBody(user) ==
    IF user = NoUser THEN [NoBody EXCEPT !.kind = "status", !.absent = TRUE]
    ELSE [NoBody EXCEPT !.kind = "status", !.protected = user.protected,
                        !.suspended = user.suspended]
\* get_profile_timeline: the Profile
ProfileBody(profile) == [NoBody EXCEPT !.kind = "profile", !.user = profile.user]

\* `except HTTPException: raise` is missing, so `except Exception` gets it
ProfileStatusOfSwallows404(exc) ==
    CASE exc = "RateLimitError" -> 429
      [] exc = "TwitterAPIError" -> 502
      [] OTHER -> 500
\* the except clauses of get_profile_timeline
ProfileStatusOf(exc) ==
    CASE exc = "HTTPException404" -> 404
      [] exc = "RateLimitError" -> 429
      [] exc = "TwitterAPIError" -> 502
      [] OTHER -> 500

\* get_user_status has no except clause: the exception reaches the server,
\* which answers 500
StatusStatusOf(exc) == 500

\* the client is closed only when the awaited call returned
FinallySkippedOnRaise(rq, raised) ==
    IF raised = None THEN [rq EXCEPT !.open = @ - 1, !.session = None, !.fresh = FALSE]
    ELSE [rq EXCEPT !.session = None, !.fresh = FALSE]
\* finally: await client.close(), whether the try block returned or raised
Finally(rq, raised) == [rq EXCEPT !.open = @ - 1, !.session = None, !.fresh = FALSE]

\* a rate-limited call is issued again with a new client
AfterFaultRetries(rq, exc) ==
    IF exc = "RateLimitError" /\ rq.calls < 3
    THEN [rq EXCEPT !.calls = @ + 1, !.open = @ + 1]
    ELSE [rq EXCEPT !.pc = "done",
                    !.http = IF rq.endpoint = "profile" THEN ProfileStatusOf(exc)
                             ELSE StatusStatusOf(exc)]
\* An exception leaves the endpoint: the request is over, answered with the
\* status the endpoint's except clauses (or the server) give it
AfterFault(rq, exc) ==
    [rq EXCEPT !.pc = "done",
               !.http = IF rq.endpoint = "profile" THEN ProfileStatusOf(exc)
                        ELSE StatusStatusOf(exc)]

\* The signature of a logical request: operation and identity
AccountSig(handle) == <<"account", handle>>
TimelineSig(user_id) == <<"timeline", user_id>>
Signatures == {AccountSig(h) : h \in Handles} \cup {TimelineSig(RestId(h)) : h \in Handles}

\* A request: where it stands, the session of its open client, the user its
\* account lookup gave, the user id its timeline was asked with, its answer
\* (status and body), the upstream calls it made and the clients it holds
IdleRequest == [pc |-> "idle", endpoint |-> None, handle |-> None,
                session |-> None, user |-> NoUser, asked |-> None, http |-> 0,
                body |-> NoBody, calls |-> 0, open |-> 0, fresh |-> FALSE]

(***************************************************************************)
(* twitter_parser.py: tweets and timelines                                 *)
(***************************************************************************)
\* A str is a sequence of characters; a dict entry is there or missing
Chars == {"1", "2", "a"}
Strs == {<<>>} \cup {<<c>> : c \in Chars} \cup {<<c, d>> : c, d \in Chars}
Missing == [has |-> FALSE, str |-> <<>>]
Field(s) == [has |-> TRUE, str |-> s]
Fields == {Missing} \cup {Field(s) : s \in Strs}
\* d.get(key, default)
Get(f, default) == IF f.has THEN f.str ELSE default

\* str.isdigit(): at least one character, and all of them digits
Digits == {"0", "1", "2", "3", "4", "5", "6", "7", "8", "9"}
isdigit(s) == s # <<>> /\ \A i \in DOMAIN s : s[i] \in Digits
DigitValue(c) ==
    CASE c = "0" -> 0 [] c = "1" -> 1 [] c = "2" -> 2 [] c = "3" -> 3 [] c = "4" -> 4
      [] c = "5" -> 5 [] c = "6" -> 6 [] c = "7" -> 7 [] c = "8" -> 8 [] c = "9" -> 9
\* int(s) of a str of digits; of any other str int() raises ValueError
RECURSIVE int(_)
int(s) ==
    IF s = <<>> THEN 0
    ELSE 10 * int(SubSeq(s, 1, Len(s) - 1)) + DigitValue(s[Len(s)])
IntRaises(s) == ~isdigit(s)

\* A tweet result node: {} (empty), or a node with its discriminator,
\* rest_id, legacy.conversation_id_str and legacy.in_reply_to_status_id_str,
\* or a node that holds such a node under its key "tweet"
EmptyNode == [tweet |-> <<>>, empty |-> TRUE, typename |-> "", rest_id |-> Missing,
              conversation_id_str |-> Missing, in_reply_to_status_id_str |-> Missing]
TweetNode(typename, rest_id, conversation, reply) ==
    [tweet |-> <<>>, empty |-> FALSE, typename |-> typename, rest_id |-> rest_id,
     conversation_id_str |-> conversation, in_reply_to_status_id_str |-> reply]
Wrapped(node) ==
    [EmptyNode EXCEPT !.tweet = <<node>>, !.empty = FALSE,
                      !.typename = "TweetWithVisibilityResults"]

\* What _parse_tweet returns: None, or the Tweet (the fields followed here)
NoTweet == [is_none |-> TRUE, id |-> 0, thread_id |-> 0, reply_id |-> 0,
            pinned |-> FALSE, available |-> FALSE]
Tweet(id, thread_id, reply_id) ==
    [is_none |-> FALSE, id |-> id, thread_id |-> thread_id, reply_id |-> reply_id,
     pinned |-> FALSE, available |-> TRUE]

\* the node is read as it comes
UnwrapSkipped(tweet_data) == tweet_data
\* if "tweet" in tweet_data: tweet_data = tweet_data["tweet"]
Unwrap(tweet_data) ==
    IF tweet_data.tweet # <<>> THEN tweet_data.tweet[1] ELSE tweet_data

\* _parse_tweet: the exception it raises, or what it returns
_parse_tweet(tweet_data) ==
    IF Unwrap(tweet_data).empty \/ Unwrap(tweet_data).typename = "TweetUnavailable"
    THEN [raised |-> None, tweet |-> NoTweet]
    ELSE LET rest_id == Get(Unwrap(tweet_data).rest_id, <<"0">>)
             conversation == Get(Unwrap(tweet_data).conversation_id_str, <<"0">>)
             reply == Get(Unwrap(tweet_data).in_reply_to_status_id_str, <<>>)
         IN  IF reply # <<>> /\ IntRaises(reply)
             THEN [raised |-> "ValueError", tweet |-> NoTweet]
             ELSE [raised |-> None,
                   tweet |-> Tweet(IF isdigit(rest_id) THEN int(rest_id) ELSE 0,
                                   IF isdigit(conversation) THEN int(conversation) ELSE 0,
                                   IF reply # <<>> THEN int(reply) ELSE 0)]

\* The raw feed: instructions, their entries, the items of a module entry.
\* An entryId is the sequence of its parts between the hyphens.
Item(typename, node) == [typename |-> typename, node |-> node]
Entry(entryId, typename, node, items, value) ==
    [entryId |-> entryId, typename |-> typename, node |-> node, items |-> items,
     value |-> value]
Instruction(typename, node, entries) ==
    [typename |-> typename, node |-> node, entries |-> entries]

\* "cursor-top" in entry_id, "cursor-bottom" in entry_id
Contains(entryId, parts) ==
    \E i \in 1..Len(entryId) :
        i + Len(parts) - 1 <= Len(entryId)
        /\ SubSeq(entryId, i, i + Len(parts) - 1) = parts

\* the nodes _parse_timeline_tweets hands to _parse_tweet, in the order of
\* its loops, each with the pinned flag the caller sets afterwards
RECURSIVE ItemNodes(_)
ItemNodes(items) ==
    IF items = <<>> THEN <<>>
    ELSE (IF Head(items).typename = "TimelineTweet"
          THEN <<[node |-> Head(items).node, pinned |-> FALSE]>> ELSE <<>>)
         \o ItemNodes(Tail(items))
RECURSIVE EntryNodes(_)
EntryNodes(entries) ==
    IF entries = <<>> THEN <<>>
    ELSE LET entry == Head(entries) IN
         (CASE entry.typename = "TimelineTimelineItem"
                 -> <<[node |-> entry.node, pinned |-> FALSE]>>
            [] entry.typename = "TimelineTimelineModule" -> ItemNodes(entry.items)
            [] OTHER -> <<>>)
         \o EntryNodes(Tail(entries))
\* a pinned entry is taken for an ordinary entry: its tweet is not flagged
InstructionNodesPinUnflagged(instruction) ==
    CASE instruction.typename = "TimelinePinEntry"
            -> <<[node |-> instruction.node, pinned |-> FALSE]>>
      [] instruction.typename = "TimelineAddEntries" -> EntryNodes(instruction.entries)
      [] OTHER -> <<>>
\* one instruction: TimelinePinEntry, TimelineAddEntries, or skipped
InstructionNodes(instruction) ==
    CASE instruction.typename = "TimelinePinEntry"
            -> <<[node |-> instruction.node, pinned |-> TRUE]>>
      [] instruction.typename = "TimelineAddEntries" -> EntryNodes(instruction.entries)
      [] OTHER -> <<>>
RECURSIVE FeedNodes(_)
FeedNodes(instructions) ==
    IF instructions = <<>> THEN <<>>
    ELSE InstructionNodes(Head(instructions)) \o FeedNodes(Tail(instructions))

\* tweets.append(tweet) for every node that gives a tweet
RECURSIVE Appended(_)
Appended(nodes) ==
    IF nodes = <<>> THEN <<>>
    ELSE LET t == _parse_tweet(Head(nodes).node).tweet IN
         (IF t.is_none THEN <<>> ELSE <<[t EXCEPT !.pinned = Head(nodes).pinned]>>)
         \o Appended(Tail(nodes))

\* _parse_timeline_tweets: the first exception of _parse_tweet, or the list
_parse_timeline_tweets(instructions) ==
    LET nodes == FeedNodes(instructions)
        failing == {i \in DOMAIN nodes : _parse_tweet(nodes[i].node).raised # None}
    IN  IF failing # {}
        THEN [raised |-> "ValueError", tweets |-> <<>>]
        ELSE [raised |-> None, tweets |-> Appended(nodes)]

\* the cursor loops of _parse_timeline_from_graphql over the entries of one
\* instruction, from the cursors found so far
RECURSIVE ScanEntries(_, _)
ScanEntries(entries, cursors) ==
    IF entries = <<>> THEN cursors
    ELSE LET entry == Head(entries)
             found == IF Contains(entry.entryId, <<"cursor", "top">>)
                      THEN [cursors EXCEPT !.top = entry.value]
                      ELSE IF Contains(entry.entryId, <<"cursor", "bottom">>)
                      THEN [cursors EXCEPT !.bottom = entry.value]
                      ELSE cursors
         IN  ScanEntries(Tail(entries), found)
RECURSIVE ScanInstructions(_, _)
ScanInstructions(instructions, cursors) ==
    IF instructions = <<>> THEN cursors
    ELSE ScanInstructions(Tail(instructions),
            IF Head(instructions).typename = "TimelineAddEntries"
            THEN ScanEntries(Head(instructions).entries, cursors)
            ELSE cursors)

\* the tweets are grouped two by two
GroupedInPairs(tweets) ==
    [i \in 1..((Len(tweets) + 1) \div 2) |->
        SubSeq(tweets, 2 * i - 1, IF 2 * i <= Len(tweets) THEN 2 * i ELSE Len(tweets))]
\* content = [[tweet] for tweet in tweets]
Grouped(tweets) == [i \in 1..Len(tweets) |-> <<tweets[i]>>]

NoTimeline == [content |-> <<>>, top |-> "", bottom |-> "", beginning |-> TRUE]
\* _parse_timeline_from_graphql
_parse_timeline_from_graphql(instructions) ==
    LET parsed == _parse_timeline_tweets(instructions)
        cursors == ScanInstructions(instructions, [top |-> "", bottom |-> ""])
    IN  IF parsed.raised # None
        THEN [raised |-> parsed.raised, timeline |-> NoTimeline]
        ELSE [raised |-> None,
              timeline |-> [content |-> Grouped(parsed.tweets),
                            top |-> cursors.top, bottom |-> cursors.bottom,
                            beginning |-> (Len(parsed.tweets) = 0)]]

\* all tweets of the content, group after group
RECURSIVE Flat(_)
Flat(content) == IF content = <<>> THEN <<>> ELSE Head(content) \o Flat(Tail(content))
\* parse_profile_from_graphql, the pinned tweet: the first tweet of the
\* timeline with tweet.pinned, or None
PinnedOf(timeline) ==
    LET tweets == Flat(timeline.content)
        flagged == {i \in DOMAIN tweets : tweets[i].pinned}
    IN  IF flagged = {} THEN NoTweet
        ELSE tweets[CHOOSE i \in flagged : \A j \in flagged : i <= j]

\* parse_profile_from_graphql, timeline and pinned tweet of the Profile
ProfileOf(instructions) ==
    LET parsed == _parse_timeline_from_graphql(instructions)
    IN  [raised |-> parsed.raised, tweets |-> parsed.timeline,
         pinned |-> PinnedOf(parsed.timeline)]

\* _parse_verified_type on legacy.verified (missing: False) and the
\* top-level verified_type (missing: "")
VerifiedNode(verified, verified_type) ==
    [verified |-> verified, verified_type |-> verified_type]
VerifiedNodes ==
    {VerifiedNode(v, t) : v \in {"true", "false", "missing"},
                          t \in {"Business", "Government", "Blue", "Other", "missing"}}
\* the tag is looked at before legacy.verified
_parse_verified_typeTagFirst(user_data) ==
    IF user_data.verified_type = "Business" THEN "BUSINESS"
    ELSE IF user_data.verified_type = "Government" THEN "GOVERNMENT"
    ELSE IF user_data.verified = "true" THEN "BLUE"
    ELSE "NONE"
\* _parse_verified_type
_parse_verified_type(user_data) ==
    IF user_data.verified = "true"
    THEN IF user_data.verified_type = "Business" THEN "BUSINESS"
         ELSE IF user_data.verified_type = "Government" THEN "GOVERNMENT"
         ELSE "BLUE"
    ELSE "NONE"

\* The tweet nodes _parse_tweet is applied to on its own
TweetNodes ==
    LET plain == {TweetNode(tn, id, conversation, reply) :
                    tn \in {"Tweet", "TweetUnavailable"},
                    id \in {Missing, Field(<<"1">>), Field(<<"a">>)},
                    conversation \in Fields, reply \in Fields}
    IN  plain \cup {Wrapped(n) : n \in plain} \cup {EmptyNode, Wrapped(EmptyNode)}

\* The feeds the timeline parser is applied to.  Their tweet nodes: two
\* available tweets (one wrapped), an unavailable one (wrapped), an empty
\* result, and a tweet whose reply id is not numeric
TweetOne == TweetNode("Tweet", Field(<<"1">>), Missing, Missing)
TweetTwo == Wrapped(TweetNode("Tweet", Field(<<"2">>), Field(<<"1">>), Field(<<"1">>)))
Unavailable == Wrapped(TweetNode("TweetUnavailable", Missing, Missing, Missing))
BadReply == TweetNode("Tweet", Field(<<"1", "2">>), Missing, Field(<<"a">>))
TimelineNodes == {TweetOne, TweetTwo, Unavailable, EmptyNode, BadReply}
ItemEntry(node) == Entry(<<"tweet", "1">>, "TimelineTimelineItem", node, <<>>, "")
ModuleEntry(items) ==
    Entry(<<"profile", "conversation", "1">>, "TimelineTimelineModule", EmptyNode, items, "")
CursorEntry(entryId, value) ==
    Entry(entryId, "TimelineTimelineCursor", EmptyNode, <<>>, value)
TimelineEntries ==
    {ItemEntry(n) : n \in TimelineNodes}
    \cup {ModuleEntry(<<Item("TimelineTweet", TweetTwo), Item("TimelineTweet", TweetOne)>>),
          ModuleEntry(<<Item("TimelineTweet", Unavailable), Item("TimelineUser", TweetOne),
                        Item("TimelineTweet", TweetTwo)>>)}
    \cup {CursorEntry(<<"cursor", "top", "9">>, "T"),
          CursorEntry(<<"cursor", "bottom", "9">>, "B"),
          CursorEntry(<<"cursor", "showmore", "9">>, "S")}
    \cup {Entry(<<"cursor", "top", "7">>, "TimelineTimelineItem", TweetOne, <<>>, "X"),
          Entry(<<"who", "to", "follow">>, "TimelineTimelineUnknown", TweetOne, <<>>, "")}
EntryLists ==
    {<<>>} \cup {<<e>> : e \in TimelineEntries}
    \cup {<<e, f>> : e, f \in TimelineEntries}
TimelineInstructions ==
    {Instruction("TimelinePinEntry", n, <<>>) : n \in TimelineNodes}
    \cup {Instruction("TimelineAddEntries", EmptyNode, es) : es \in EntryLists}
    \cup {Instruction("TimelineClearCache", TweetOne, <<ItemEntry(TweetTwo)>>)}
Feeds ==
    {<<>>} \cup {<<i>> : i \in TimelineInstructions}
    \cup {<<i, j>> : i, j \in TimelineInstructions}

(***************************************************************************)
(* State                                                                   *)
(***************************************************************************)
VARIABLES
    file,            \* the sessions.jsonl the process was started with
    sessions,        \* SessionManager.sessions
    _current_index,  \* SessionManager._current_index
    loadError,       \* exception raised by SessionManager.__init__, or None
    issued,          \* log of get_session() returns, in call order
    ttl,             \* PostgresCache.ttl / SqliteCache.ttl (CACHE_TTL_SECONDS)
    ttl_jitter,      \* .ttl_jitter (CACHE_TTL_JITTER_SECONDS)
    now,             \* int(time.time())
    pgRows,          \* table `cache` behind PostgresCache
    sqRows,          \* table `cache` behind SqliteCache
    storeError,      \* a store exception has reached a caller
    lastOp,          \* the operation that produced this state, with its results
    lastSet,         \* per key: value and time of the latest set(k, .) not
                     \* followed by delete(k) or clear_all(); NeverSet otherwise
    backend,         \* which cache class cache_getter() returns: "pg" or "sq"
    wr,              \* the calls of a function decorated with @cached
    req,             \* the HTTP requests the gateway is serving
    fetched          \* per request signature: when an upstream call last
                     \* returned a payload with a result node, or -1

poolVars == <<file, sessions, _current_index, loadError, issued>>
cacheVars == <<ttl, ttl_jitter, now, pgRows, sqRows, storeError, lastOp, lastSet>>
wrapVars == <<backend, wr>>
gateVars == <<req, fetched>>
vars == <<poolVars, cacheVars, wrapVars, gateVars>>

NeverSet == [value |-> None, time |-> 0]

\* lastOp: op, the caller (a wrapper call, or None), its key and value arguments, the effective TTL a get drew,
\* what each variant returned (get), raised (set) or removed (clear_expired),
\* and the rows a set found under its key.
NoOp == [op |-> "init", by |-> None, key |-> None, value |-> None, fetch |-> None,
         result |-> None,
         eff |-> None,
         pg |-> None, sq |-> None, prev |-> {}]

\* SessionManager.__init__
InitPool(f) ==
    LET r == _load_sessions(f) IN
    /\ file = f
    /\ sessions = r.sessions
    /\ _current_index = 0
    /\ loadError = r.error
    /\ issued = <<>>

\* PostgresCache.__init__ / SqliteCache.__init__ on an empty table
InitCache ==
    /\ ttl \in 1..MaxTTL
    /\ ttl_jitter \in 0..MaxJitter
    /\ now = 0
    /\ pgRows = {}
    /\ sqRows = {}
    /\ storeError = FALSE
    /\ lastOp = NoOp
    /\ lastSet = [k \in Keys |-> NeverSet]

\* no decorated function has been called yet
InitWrapper ==
    /\ backend \in {"pg", "sq"}
    /\ wr = [p \in WrapperCalls |-> IdleCall]

\* no request has arrived yet
InitGateway ==
    /\ req = [p \in Requests |-> IdleRequest]
    /\ fetched = [g \in Signatures |-> -1]

\* SessionManager.get_session, called directly
get_session ==
    /\ loadError = None
    /\ Len(issued) < MaxCalls
    /\ sessions # <<>>
    /\ issued' = Append(issued, [idx |-> _current_index,
                                 session |-> sessions[_current_index + 1]])
    /\ _current_index' = NextIndex(_current_index, Len(sessions))
    /\ UNCHANGED <<file, sessions, loadError, cacheVars, wrapVars, gateVars>>

(***************************************************************************)
(* Cache operations; both variants are driven side by side with the same   *)
(* clock reading and the same jitter draw.                                 *)
(***************************************************************************)
TickTo(limit) ==
    /\ now < limit
    /\ now' = now + 1
    /\ lastOp' = [NoOp EXCEPT !.op = "tick"]
    /\ UNCHANGED <<ttl, ttl_jitter, pgRows, sqRows, storeError, lastSet, poolVars, wrapVars, gateVars>>

Tick == TickTo(MaxTime)

get(k) ==
    \E draw \in Draws(ttl_jitter) :
      LET effective_ttl == _get_effective_ttl(ttl, ttl_jitter, draw)
          p == PgGet(pgRows, k, now, effective_ttl)
          q == SqGet(sqRows, k, now, effective_ttl)
      IN  /\ pgRows' = p.rows
          /\ sqRows' = q.rows
          /\ lastOp' = [op |-> "get", by |-> None, key |-> k, value |-> None,
                        fetch |-> None, result |-> None,
                        eff |-> effective_ttl, pg |-> p.result, sq |-> q.result,
                        prev |-> {}]
          /\ UNCHANGED <<ttl, ttl_jitter, now, storeError, lastSet, poolVars, wrapVars, gateVars>>

set(k, v) ==
    LET p == PgSet(pgRows, k, v, now)
        q == SqSet(sqRows, k, v, now)
    IN  /\ pgRows' = p.rows
        /\ sqRows' = q.rows
        /\ storeError' = (storeError \/ p.error # None \/ q.error # None)
        /\ lastOp' = [op |-> "set", by |-> None, key |-> k, value |-> v, eff |-> None,
                      fetch |-> None, result |-> None,
                      pg |-> p.error, sq |-> q.error, prev |-> RowsFor(pgRows, k)]
        /\ lastSet' = [lastSet EXCEPT ![k] = [value |-> v, time |-> now]]
        /\ UNCHANGED <<ttl, ttl_jitter, now, poolVars, wrapVars, gateVars>>

delete(k) ==
    /\ pgRows' = PgDelete(pgRows, k)
    /\ sqRows' = SqDelete(sqRows, k)
    /\ lastOp' = [NoOp EXCEPT !.op = "delete", !.key = k]
    /\ lastSet' = [lastSet EXCEPT ![k] = NeverSet]
    /\ UNCHANGED <<ttl, ttl_jitter, now, storeError, poolVars, wrapVars, gateVars>>

clear_expired ==
    /\ pgRows' = PgClearExpired(pgRows, now, ttl, ttl_jitter)
    /\ sqRows' = SqClearExpired(sqRows, now, ttl, ttl_jitter)
    /\ lastOp' = [NoOp EXCEPT !.op = "clear_expired",
                               !.pg = pgRows \ pgRows', !.sq = sqRows \ sqRows']
    /\ UNCHANGED <<ttl, ttl_jitter, now, storeError, lastSet, poolVars, wrapVars, gateVars>>

clear_all ==
    /\ pgRows' = PgClearAll(pgRows)
    /\ sqRows' = SqClearAll(sqRows)
    /\ lastOp' = [NoOp EXCEPT !.op = "clear_all"]
    /\ lastSet' = [k \in Keys |-> NeverSet]
    /\ UNCHANGED <<ttl, ttl_jitter, now, storeError, poolVars, wrapVars, gateVars>>

(***************************************************************************)
(* cached(cache_getter, key_fn)(func): wrapper.  `await func(...)` is the  *)
(* only suspension point, so a call is two steps: up to the await, and     *)
(* from the producer's completion to the return.                           *)
(***************************************************************************)
Rows == IF backend = "pg" THEN pgRows ELSE sqRows
CacheGet(k, eff) == IF backend = "pg" THEN PgGet(pgRows, k, now, eff)
                    ELSE SqGet(sqRows, k, now, eff)
CacheSet(k, v) == IF backend = "pg" THEN PgSet(pgRows, k, v, now)
                  ELSE SqSet(sqRows, k, v, now)

\* key = key_fn(...); cached_value = cache_instance.get(key);
\* if cached_value is not None: return cached_value; else await func(...)
WrapperCall(p, args) ==
    /\ wr[p].pc # "awaiting"
    /\ \E draw \in Draws(ttl_jitter) :
         LET effective_ttl == _get_effective_ttl(ttl, ttl_jitter, draw)
             k == key_fn(func_args(args))
             g == CacheGet(k, effective_ttl)
         IN  /\ pgRows' = IF backend = "pg" THEN g.rows ELSE pgRows
             /\ sqRows' = IF backend = "sq" THEN g.rows ELSE sqRows
             /\ lastOp' = [NoOp EXCEPT !.op = "wrapper_get", !.by = p, !.key = k,
                                       !.value = g.result]
             /\ wr' = [wr EXCEPT ![p] = IF g.result # None
                                        THEN [IdleCall EXCEPT !.pc = "returned"]
                                        ELSE [pc |-> "awaiting", key |-> k,
                                              args |-> args]]
    /\ UNCHANGED <<ttl, ttl_jitter, now, storeError, lastSet, backend, poolVars, gateVars>>

\* result = await func(...) returned; cache_instance.set(key, result); return result
WrapperReturn(p, result) ==
    /\ wr[p].pc = "awaiting"
    /\ LET w == CacheSet(wr[p].key, result) IN
         /\ pgRows' = IF backend = "pg" THEN w.rows ELSE pgRows
         /\ sqRows' = IF backend = "sq" THEN w.rows ELSE sqRows
         /\ storeError' = (storeError \/ w.error # None)
         /\ lastOp' = [NoOp EXCEPT !.op = "wrapper_set", !.by = p, !.key = wr[p].key,
                                   !.value = result, !.pg = w.error,
                                   !.prev = RowsFor(Rows, wr[p].key)]
         /\ lastSet' = [lastSet EXCEPT ![wr[p].key] = [value |-> result, time |-> now]]
         /\ wr' = [wr EXCEPT ![p] = [IdleCall EXCEPT
                                       !.pc = IF w.error = None THEN "returned" ELSE "raised"]]
    /\ UNCHANGED <<ttl, ttl_jitter, now, backend, poolVars, gateVars>>

\* the exception is swallowed: the wrapper stores None under the key and
\* returns
WrapperRaiseStoresNone(p, exc) ==
    /\ wr[p].pc = "awaiting"
    /\ LET w == CacheSet(wr[p].key, None) IN
         /\ pgRows' = IF backend = "pg" THEN w.rows ELSE pgRows
         /\ sqRows' = IF backend = "sq" THEN w.rows ELSE sqRows
    /\ wr' = [wr EXCEPT ![p] = [IdleCall EXCEPT !.pc = "returned"]]
    /\ lastOp' = [NoOp EXCEPT !.op = "wrapper_raise", !.by = p, !.key = wr[p].key,
                              !.value = exc]
    /\ UNCHANGED <<ttl, ttl_jitter, now, storeError, lastSet,
                   backend, poolVars, gateVars>>
\* await func(...) raised: the exception leaves the wrapper
WrapperRaise(p, exc) ==
    /\ wr[p].pc = "awaiting"
    /\ wr' = [wr EXCEPT ![p] = [IdleCall EXCEPT !.pc = "raised"]]
    /\ lastOp' = [NoOp EXCEPT !.op = "wrapper_raise", !.by = p, !.key = wr[p].key,
                              !.value = exc]
    /\ UNCHANGED <<ttl, ttl_jitter, now, pgRows, sqRows, storeError, lastSet,
                   backend, poolVars, gateVars>>

(***************************************************************************)
(* app.py: get_profile_timeline and get_user_status, with the helpers      *)
(* get_user_data and get_user_tweets_data inlined.  The suspension points  *)
(* are the two awaited upstream calls.                                     *)
(***************************************************************************)
\* session = session_manager.get_session() as the helpers call it
TakeSession ==
    /\ issued' = Append(issued, [idx |-> _current_index,
                                 session |-> sessions[_current_index + 1]])
    /\ _current_index' = NextIndex(_current_index, Len(sessions))
    /\ UNCHANGED <<file, sessions, loadError>>

\* was this signature fetched successfully at most ttl - ttl_jitter ago
FetchedRecently(g) == fetched[g] >= 0 /\ now - fetched[g] <= ttl - ttl_jitter

\* the client is built with the credentials of the first session of the pool
TwitterClientFirstSession(session) ==
    [oauth_token |-> sessions[1].oauth_token,
     oauth_token_secret |-> sessions[1].oauth_token_secret]
\* TwitterClient(oauth_token=session.oauth_token,
\*               oauth_token_secret=session.oauth_token_secret): the
\* credentials every call of the client is signed with
TwitterClient(session) ==
    [oauth_token |-> session.oauth_token,
     oauth_token_secret |-> session.oauth_token_secret]

\* A request arrives.  Both endpoints begin with get_user_data(handle):
\* take a session, build a TwitterClient, await get_user_by_screen_name
StartRequest(p, endpoint, handle) ==
    /\ loadError = None
    /\ req[p].pc = "idle"
    /\ TakeSession
    /\ req' = [req EXCEPT ![p] =
                 [IdleRequest EXCEPT !.pc = "await_user", !.endpoint = endpoint,
                                     !.handle = handle,
                                     !.session = TwitterClient(sessions[_current_index + 1]),
                                     !.calls = 1, !.open = 1,
                                     !.fresh = FetchedRecently(AccountSig(handle))]]
    /\ lastOp' = [NoOp EXCEPT !.op = "request", !.by = p]
    /\ UNCHANGED <<ttl, ttl_jitter, now, pgRows, sqRows, storeError, lastSet,
                   wrapVars, fetched>>

\* get_user_by_screen_name completes; get_user_data parses and closes the
\* client; the endpoint goes on to its next await or answers
UserResponse(p, response) ==
    /\ req[p].pc = "await_user"
    /\ LET r == _fetch(response)
           g == get_user_data(r)
           closed == Finally(req[p], g.raised)
       IN
       /\ fetched' = IF r.raised = None /\ r.data.result
                     THEN [fetched EXCEPT ![AccountSig(req[p].handle)] = now]
                     ELSE fetched
       /\ IF g.raised # None
          THEN /\ req' = [req EXCEPT ![p] = AfterFault(closed, g.raised)]
               /\ UNCHANGED poolVars
          ELSE IF req[p].endpoint = "status"
          THEN \* {"absent": True} or {"protected": .., "suspended": ..}
               /\ req' = [req EXCEPT ![p] = [closed EXCEPT !.pc = "done", !.http = 200,
                                                           !.user = g.user,
                                                           !.body = StatusBody(g.user)]]
               /\ UNCHANGED poolVars
          ELSE IF g.user = NoUser
          THEN \* raise HTTPException(404, ...)
               /\ req' = [req EXCEPT ![p] = AfterFault(closed, "HTTPException404")]
               /\ UNCHANGED poolVars
          ELSE \* get_user_tweets_data(user.id, cursor): take the next session,
               \* build a second client, await get_user_tweets
               /\ TakeSession
               /\ req' = [req EXCEPT ![p] =
                            [closed EXCEPT !.pc = "await_tweets", !.user = g.user,
                                           !.asked = g.user.id,
                                           !.session = TwitterClient(sessions[_current_index + 1]),
                                           !.calls = @ + 1, !.open = @ + 1,
                                           !.fresh = FetchedRecently(TimelineSig(g.user.id))]]
    /\ lastOp' = [NoOp EXCEPT !.op = "user_response", !.by = p, !.fetch = _fetch(response)]
    /\ UNCHANGED <<ttl, ttl_jitter, now, pgRows, sqRows, storeError, lastSet, wrapVars>>

\* get_user_tweets completes; get_user_tweets_data closes the client; the
\* endpoint parses the profile, gives it the looked-up user and returns it
TweetsResponse(p, response) ==
    /\ req[p].pc = "await_tweets"
    /\ LET r == _fetch(response)
           closed == Finally(req[p], r.raised)
           parsed == parse_profile_from_graphql(r.data)
       IN
       /\ fetched' = IF r.raised = None
                     THEN [fetched EXCEPT ![TimelineSig(req[p].user.id)] = now]
                     ELSE fetched
       /\ req' = [req EXCEPT ![p] =
                    IF r.raised # None THEN AfterFault(closed, r.raised)
                    ELSE IF parsed.raised # None THEN AfterFault(closed, parsed.raised)
                    ELSE [closed EXCEPT !.pc = "done", !.http = 200,
                                        !.body = ProfileBody(SetUser(parsed.profile,
                                                                     req[p].user))]]
    /\ lastOp' = [NoOp EXCEPT !.op = "tweets_response", !.by = p, !.fetch = _fetch(response)]
    /\ UNCHANGED <<ttl, ttl_jitter, now, pgRows, sqRows, storeError, lastSet, wrapVars,
                   poolVars>>

\* One upstream exchange seen through TwitterClient._fetch alone
Fetch(response) ==
    /\ lastOp' = [NoOp EXCEPT !.op = "_fetch", !.value = response,
                              !.fetch = _fetch(response)]
    /\ UNCHANGED <<ttl, ttl_jitter, now, pgRows, sqRows, storeError, lastSet, poolVars,
                   wrapVars, gateVars>>

\* The parser applied to a raw input: parse_profile_from_graphql to
\* the instructions of a timeline envelope, _parse_tweet to a tweet node,
\* _parse_verified_type to a user node
ParseProfile(instructions) ==
    /\ lastOp' = [NoOp EXCEPT !.op = "parse_profile", !.value = instructions,
                              !.result = ProfileOf(instructions)]
    /\ UNCHANGED <<ttl, ttl_jitter, now, pgRows, sqRows, storeError, lastSet, poolVars,
                   wrapVars, gateVars>>
ParseTweet(tweet_data) ==
    /\ lastOp' = [NoOp EXCEPT !.op = "_parse_tweet", !.value = tweet_data,
                              !.result = _parse_tweet(tweet_data)]
    /\ UNCHANGED <<ttl, ttl_jitter, now, pgRows, sqRows, storeError, lastSet, poolVars,
                   wrapVars, gateVars>>
ParseVerified(user_data) ==
    /\ lastOp' = [NoOp EXCEPT !.op = "_parse_verified_type", !.value = user_data,
                              !.result = _parse_verified_type(user_data)]
    /\ UNCHANGED <<ttl, ttl_jitter, now, pgRows, sqRows, storeError, lastSet, poolVars,
                   wrapVars, gateVars>>

(***************************************************************************)
(* Specifications                                                          *)
(***************************************************************************)
\* The credential pool alone, loaded from any file
InitSpecPool ==
    /\ \E f \in Files : InitPool(f)
    /\ InitCache /\ ttl = 1 /\ ttl_jitter = 0
    /\ InitWrapper /\ backend = "pg"
    /\ InitGateway
NextPool == get_session
SpecPool == InitSpecPool /\ [][NextPool]_vars

\* The cache API called directly
DefaultFile == [exists |-> TRUE, lines |-> <<[kind |-> "valid", tok |-> "tokA"]>>]
InitSpecCache ==
    /\ InitPool(DefaultFile) /\ InitCache
    /\ InitWrapper /\ backend = "pg"
    /\ InitGateway
NextCache ==
    \/ Tick
    \/ \E k \in Keys : get(k)
    \/ \E k \in Keys, v \in Values : set(k, v)
    \/ \E k \in Keys : delete(k)
    \/ clear_expired
    \/ clear_all
SpecCache == InitSpecCache /\ [][NextCache]_vars

\* Calls of a decorated function, interleaved at its await
InitSpecWrapper ==
    /\ InitPool(DefaultFile)
    /\ InitCache /\ ttl = 1 /\ ttl_jitter <= 1
    /\ InitWrapper
    /\ InitGateway
NextWrapper ==
    \/ TickTo(MaxWrapperTime)
    \/ \E p \in WrapperCalls, args \in MethodArgs({Client("client1", "tokA")}) :
          WrapperCall(p, args)
    \/ \E p \in WrapperCalls, r \in ProducerResults : WrapperReturn(p, r)
    \/ \E p \in WrapperCalls, e \in ProducerErrors : WrapperRaise(p, e)
SpecWrapper == InitSpecWrapper /\ [][NextWrapper]_vars

\* Calls of a decorated function made by several clients, and without one
InitSpecKeys ==
    /\ InitPool(DefaultFile)
    /\ InitCache /\ ttl = 1 /\ ttl_jitter = 0
    /\ InitWrapper
    /\ InitGateway
NextKeys ==
    \/ TickTo(MaxWrapperTime)
    \/ \E p \in WrapperCalls, args \in WrapperArgs : WrapperCall(p, args)
    \/ \E p \in WrapperCalls, r \in Values : WrapperReturn(p, r)
    \/ \E p \in WrapperCalls, e \in ProducerErrors : WrapperRaise(p, e)
SpecKeys == InitSpecKeys /\ [][NextKeys]_vars

\* The gateway serving concurrent requests
PoolFile(n) == [exists |-> TRUE,
                lines |-> SubSeq(<<[kind |-> "valid", tok |-> "tokA"],
                                   [kind |-> "valid", tok |-> "tokB"],
                                   [kind |-> "valid", tok |-> "tokC"]>>, 1, n)]
InitSpecGateway ==
    /\ \E n \in 1..3 : InitPool(PoolFile(n))
    /\ InitCache /\ ttl = 1 /\ ttl_jitter <= 1
    /\ InitWrapper /\ backend = "pg"
    /\ InitGateway
NextGateway ==
    \/ TickTo(MaxGatewayTime)
    \/ \E p \in Requests, e \in Endpoints, h \in Handles : StartRequest(p, e, h)
    \/ \E p \in Requests :
          \E resp \in Responses(UserNodes(req[p].handle) \cup {NoResult, NullData}) :
             UserResponse(p, resp)
    \/ \E p \in Requests, resp \in Responses(TimelineDatas) : TweetsResponse(p, resp)
SpecGateway == InitSpecGateway /\ [][NextGateway]_vars

\* TwitterClient._fetch on every exchange
InitSpecFetch ==
    /\ InitPool(DefaultFile)
    /\ InitCache /\ ttl = 1 /\ ttl_jitter = 0
    /\ InitWrapper
    /\ InitGateway
NextFetch == \E resp \in Exchanges : Fetch(resp)
SpecFetch == InitSpecFetch /\ [][NextFetch]_vars

\* The parser applied once to every raw input
InitSpecParse ==
    /\ InitPool(DefaultFile)
    /\ InitCache /\ ttl = 1 /\ ttl_jitter = 0
    /\ InitWrapper /\ backend = "pg"
    /\ InitGateway
NextParse ==
    /\ lastOp.op = "init"
    /\ \/ \E instructions \in Feeds : ParseProfile(instructions)
       \/ \E tweet_data \in TweetNodes : ParseTweet(tweet_data)
       \/ \E user_data \in VerifiedNodes : ParseVerified(user_data)
SpecParse == InitSpecParse /\ [][NextParse]_vars

(***************************************************************************)
(* Properties of the cache (checked under SpecCache)                       *)
(***************************************************************************)
\* Age of the entry for k, measured from its latest set
Age(k) == now - lastSet[k].time
\* What a get(k) in this state returns under jitter draw d
PgWouldReturn(k, d) == PgGet(pgRows, k, now, _get_effective_ttl(ttl, ttl_jitter, d)).result
SqWouldReturn(k, d) == SqGet(sqRows, k, now, _get_effective_ttl(ttl, ttl_jitter, d)).result
GetOf(k) == lastOp.op = "get" /\ lastOp.key = k /\ lastSet[k] # NeverSet

\* C3 (as stated): after set(k, v) with no later set or delete of k, get(k)
\* returns v at every age <= ttl - jitter and absent at every age
\* > ttl + jitter, and outside the ages strictly between ttl - jitter and
\* ttl + jitter the result is the same for every jitter draw.
C3_DrawOnlyMattersStrictlyBetween ==
    [][\A k \in Keys :
         (lastOp'.op = "get" /\ lastOp'.key = k /\ lastSet[k] # NeverSet) =>
           /\ Age(k) <= ttl - ttl_jitter =>
                lastOp'.pg = lastSet[k].value /\ lastOp'.sq = lastSet[k].value
           /\ Age(k) > ttl + ttl_jitter =>
                lastOp'.pg = None /\ lastOp'.sq = None
           /\ ~(ttl - ttl_jitter < Age(k) /\ Age(k) < ttl + ttl_jitter) =>
                \A d \in Draws(ttl_jitter) :
                    PgWouldReturn(k, d) = lastOp'.pg /\ SqWouldReturn(k, d) = lastOp'.sq
      ]_vars

\* C3 (amended): get(k) returns v at every age <= ttl - jitter and absent at
\* every age > ttl + jitter; only at ages ttl - jitter < a <= ttl + jitter may
\* the result depend on the draw.
C3_FreshBelowStaleAbove ==
    [][\A k \in Keys :
         (lastOp'.op = "get" /\ lastOp'.key = k /\ lastSet[k] # NeverSet) =>
           /\ Age(k) <= ttl - ttl_jitter =>
                lastOp'.pg = lastSet[k].value /\ lastOp'.sq = lastSet[k].value
           /\ Age(k) > ttl + ttl_jitter =>
                lastOp'.pg = None /\ lastOp'.sq = None
           /\ ~(ttl - ttl_jitter < Age(k) /\ Age(k) <= ttl + ttl_jitter) =>
                \A d \in Draws(ttl_jitter) :
                    PgWouldReturn(k, d) = lastOp'.pg /\ SqWouldReturn(k, d) = lastOp'.sq
      ]_vars

\* A get at the youngest age that is always served, with jitter in play
C3_Witness ==
    \E k \in Keys :
        /\ GetOf(k) /\ ttl_jitter > 0
        /\ Age(k) = ttl - ttl_jitter /\ Age(k) > 0
        /\ lastOp.pg = lastSet[k].value

\* C4: clear_expired removes only rows that get() reports expired under every
\* jitter draw (age > ttl + jitter), and every row some get() could still
\* return survives it.
C4_ClearExpiredConservative ==
    [][lastOp'.op = "clear_expired" =>
         /\ \A r \in pgRows \ pgRows' :
               /\ now - r.timestamp > ttl + ttl_jitter
               /\ \A d \in Draws(ttl_jitter) : PgWouldReturn(r.key, d) = None
         /\ \A r \in sqRows \ sqRows' :
               /\ now - r.timestamp > ttl + ttl_jitter
               /\ \A d \in Draws(ttl_jitter) : SqWouldReturn(r.key, d) = None
         /\ \A r \in pgRows :
               (\E d \in Draws(ttl_jitter) : PgWouldReturn(r.key, d) # None) => r \in pgRows'
         /\ \A r \in sqRows :
               (\E d \in Draws(ttl_jitter) : SqWouldReturn(r.key, d) # None) => r \in sqRows'
      ]_vars

\* clear_expired removed a row and kept one whose age is exactly ttl + jitter
C4_Witness ==
    /\ lastOp.op = "clear_expired"
    /\ lastOp.pg # {} /\ lastOp.sq # {}
    /\ \E r \in pgRows : now - r.timestamp = ttl + ttl_jitter
    /\ \E r \in sqRows : now - r.timestamp = ttl + ttl_jitter

\* C5: get(k) returns absent when no row is stored for k and when the stored
\* row is expired under the drawn effective TTL; in the expired case no row
\* for k is left when the get returns.
C5_AbsentWhenMissingOrExpired ==
    [][\A k \in Keys :
         (lastOp'.op = "get" /\ lastOp'.key = k) =>
           /\ RowsFor(pgRows, k) = {} => lastOp'.pg = None /\ pgRows' = pgRows
           /\ RowsFor(sqRows, k) = {} => lastOp'.sq = None /\ sqRows' = sqRows
           /\ \A r \in RowsFor(pgRows, k) :
                 now - r.timestamp > lastOp'.eff =>
                     lastOp'.pg = None /\ RowsFor(pgRows', k) = {}
           /\ \A r \in RowsFor(sqRows, k) :
                 now - r.timestamp > lastOp'.eff =>
                     lastOp'.sq = None /\ RowsFor(sqRows', k) = {}
      ]_vars

\* A get found the entry of an earlier set expired and removed it
C5_Witness ==
    \E k \in Keys :
        /\ GetOf(k) /\ Age(k) > lastOp.eff
        /\ lastOp.pg = None /\ lastOp.sq = None
        /\ RowsFor(pgRows, k) = {} /\ RowsFor(sqRows, k) = {}

\* C6: the table holds at most one row per key, and right after set(k, v) the
\* row for k holds exactly v and the time of that set.
OneRowPerKey(rows) == \A r1, r2 \in rows : r1.key = r2.key => r1 = r2
C6_UpsertOverwrites ==
    /\ OneRowPerKey(pgRows) /\ OneRowPerKey(sqRows)
    /\ lastOp.op = "set" =>
          /\ RowsFor(pgRows, lastOp.key) = {Row(lastOp.key, lastOp.value, now)}
          /\ RowsFor(sqRows, lastOp.key) = {Row(lastOp.key, lastOp.value, now)}

\* A set replaced an older row holding another value
C6_Witness ==
    /\ lastOp.op = "set"
    /\ \E old \in lastOp.prev :
          old.timestamp < now /\ old.value # Dumps(lastOp.value)
    /\ Cardinality(pgRows) = 2

\* C10: get(k), set(k, v) and delete(k) leave the rows of every other key as
\* they were.
C10_OtherKeysUntouched ==
    [][lastOp'.op \in {"get", "set", "delete"} =>
         \A k \in Keys \ {lastOp'.key} :
             /\ RowsFor(pgRows', k) = RowsFor(pgRows, k)
             /\ RowsFor(sqRows', k) = RowsFor(sqRows, k)
      ]_vars

\* A delete(k) ran while another key held an entry, which is still there
C10_Witness ==
    /\ lastOp.op = "delete"
    /\ RowsFor(pgRows, lastOp.key) = {} /\ RowsFor(sqRows, lastOp.key) = {}
    /\ \E r \in pgRows : r.key # lastOp.key
    /\ \E r \in sqRows : r.key # lastOp.key

(***************************************************************************)
(* Properties of the credential pool (checked under SpecPool)              *)
(***************************************************************************)
\* The tokens of the valid lines of the file, in file order
IsValidLine(line) == line.kind = "valid"
LoadOrder == SelectSeq(file.lines, IsValidLine)

\* C1: the k-th get_session() of a freshly loaded pool of N credentials
\* returns credential number (k-1) mod N in load order.
C1_RoundRobin ==
    loadError = None =>
        /\ Len(sessions) = Len(LoadOrder)
        /\ \A k \in 1..Len(issued) :
              LET n == (k - 1) % Len(LoadOrder) IN
              /\ issued[k].idx = n
              /\ issued[k].session = _TwitterSession(LoadOrder[n + 1].tok)

\* N+1 calls on a pool of N >= 2 distinct credentials: the first N returns
\* are pairwise distinct and the (N+1)th equals the first
C1_Witness ==
    /\ loadError = None
    /\ Len(sessions) >= 2
    /\ Len(issued) = Len(sessions) + 1
    /\ \A i, j \in 1..Len(sessions) : i # j => issued[i].session # issued[j].session
    /\ issued[Len(sessions) + 1] = issued[1]

(***************************************************************************)
(* Properties of the decorator (checked under SpecWrapper)                 *)
(***************************************************************************)
\* C8: no row of the cache holds a negative result (the envelope of an
\* account that was not found, or None): only successful payloads are cached.
NegativeResults == {NotFoundEnvelope, None}
C8_NegativeNeverCached ==
    /\ \A r \in pgRows : Loads(r.value) \notin NegativeResults
    /\ \A r \in sqRows : Loads(r.value) \notin NegativeResults

\* C9: when a call of the decorated function writes its result, no store
\* error has occurred and the table holds exactly one row for the key, with
\* the value and time of that (latest) write, also when another call that
\* missed on the same key wrote in between.
C9_LastWriterWins ==
    /\ ~storeError
    /\ lastOp.op = "wrapper_set" =>
          /\ lastOp.pg = None
          /\ RowsFor(Rows, lastOp.key) = {Row(lastOp.key, lastOp.value, now)}
          /\ wr[lastOp.by].pc = "returned"

\* Two calls missed on the same key, both producers ran, and the second
\* write replaced the row of the first, which held another value
C9_Witness ==
    /\ lastOp.op = "wrapper_set"
    /\ \E old \in lastOp.prev : old.value # Dumps(lastOp.value)
    /\ \A p \in WrapperCalls : wr[p].pc = "returned"
    /\ RowsFor(Rows, lastOp.key) = {Row(lastOp.key, lastOp.value, now)}

(***************************************************************************)
(* Properties of the gateway (checked under SpecGateway)                   *)
(***************************************************************************)
InFlight(p) == req[p].pc \in {"await_user", "await_tweets"}

\* C2: under every interleaving of the requests, any N consecutive
\* get_session() returns (and so any k <= N of them) are pairwise distinct
\* entries of the pool, and after k returns the index stands at k mod N.
C2_AtomicRotation ==
    loadError = None =>
        /\ _current_index = Len(issued) % Len(sessions)
        /\ \A i, j \in 1..Len(issued) :
              (i < j /\ j - i < Len(sessions)) => issued[i].idx # issued[j].idx
        /\ \A p, q \in Requests :
              (p # q /\ InFlight(p) /\ InFlight(q) /\ Len(sessions) >= Len(issued))
                  => req[p].session # req[q].session

\* Two requests are in flight at once, each holding its own credential, the
\* second of them taken while the first request was suspended
C2_Witness ==
    /\ Len(sessions) >= 2
    /\ Len(issued) = 3
    /\ req["r1"].pc = "await_tweets" /\ req["r2"].pc = "await_user"
    /\ req["r1"].session # req["r2"].session

\* C7: requests are served cache-aside: no credential is taken and no
\* upstream call is made for a request signature that an upstream call
\* answered successfully at most ttl - ttl_jitter seconds before.
C7_CacheAside ==
    \A p \in Requests : InFlight(p) => ~req[p].fresh
\* The step in which request p gets the answer of its account lookup
UserStep(p) ==
    /\ req[p].pc = "await_user"
    /\ lastOp'.op = "user_response" /\ lastOp'.by = p
\* the account lookup returned and gave no user (no result node)
LookupAbsent(r) == get_user_data(r).raised = None /\ get_user_data(r).user = NoUser

C13_SuspendedForbidden ==
    \A p \in Requests :
        (req[p].endpoint = "profile" /\ req[p].user.suspended)
        => (req[p].pc = "done" /\ req[p].http = 403 /\ req[p].asked = None)

\* what get_user_status is to answer for the envelope of a returned lookup
ExpectedStatusBody(d) ==
    IF ~d.result THEN [NoBody EXCEPT !.kind = "status", !.absent = TRUE]
    ELSE [NoBody EXCEPT !.kind = "status",
                        !.protected = (d.protected = "true"),
                        !.suspended = (d.typename = "UserUnavailable")]
ReferenceStatus(exc) ==
    CASE exc = "HTTPException404" -> 404
      [] exc = "RateLimitError" -> 429
      [] exc = "TwitterAPIError" -> 502
      [] OTHER -> 500
\* C15: whichever upstream call of whichever endpoint fails, the request is
\* answered with the status of the reference mapping: 429 for a rate limit,
\* 502 for any other upstream error, 500 for anything else, and 404 for a
\* profile whose account does not exist.
C15_ReferenceMapping ==
    \A p \in Requests :
        /\ (/\ lastOp.op \in {"user_response", "tweets_response"} /\ lastOp.by = p
            /\ lastOp.fetch.raised # None)
           => (req[p].pc = "done" /\ req[p].http = ReferenceStatus(lastOp.fetch.raised))
        /\ (/\ lastOp.op = "user_response" /\ lastOp.by = p
            /\ req[p].endpoint = "profile" /\ LookupAbsent(lastOp.fetch))
           => (req[p].pc = "done" /\ req[p].http = ReferenceStatus("HTTPException404"))

\* The failure kinds of an upstream call, read off the exception _fetch
\* raised: its class, its status_code and the head of its message
IsRateLimited(r) == r.raised = "RateLimitError"
IsServiceUnavailable(r) ==
    r.raised = "TwitterAPIError" /\ r.message = "Service unavailable"
IsHttp(r) == r.raised = "TwitterAPIError" /\ r.status_code # {}
IsNetwork(r) == r.raised = "TwitterAPIError" /\ r.message = "Request error"
IsApi(r) == r.raised = "TwitterAPIError" /\ r.message = "Twitter API error"
KindsOf(r) ==
    {k \in {"RateLimited", "ServiceUnavailable", "Http", "Network", "Api"} :
        \/ k = "RateLimited" /\ IsRateLimited(r)
        \/ k = "ServiceUnavailable" /\ IsServiceUnavailable(r)
        \/ k = "Http" /\ IsHttp(r)
        \/ k = "Network" /\ IsNetwork(r)
        \/ k = "Api" /\ IsApi(r)}
IsErrorStatus(st) == st \in 400..599

\* C16: _fetch classifies a failed exchange by its status, whatever the
\* body holds: 429 gives RateLimited, 503 ServiceUnavailable, any other
\* 4xx/5xx status Http carrying that status, a transport failure Network;
\* a failed call has exactly one kind.
C16_ClassifiedByStatus ==
    lastOp.op = "_fetch" =>
        LET x == lastOp.value
            r == lastOp.fetch
        IN  /\ x.transport = "error" => KindsOf(r) = {"Network"}
            /\ (x.transport = "ok" /\ x.status = 429) => KindsOf(r) = {"RateLimited"}
            /\ (x.transport = "ok" /\ x.status = 503) => KindsOf(r) = {"ServiceUnavailable"}
            /\ (x.transport = "ok" /\ IsErrorStatus(x.status) /\ x.status \notin {429, 503})
                 => (KindsOf(r) = {"Http"} /\ r.status_code = {x.status})
            /\ (r.raised \in {"TwitterAPIError", "RateLimitError"})
                 => Cardinality(KindsOf(r)) = 1
\* A 429 whose body is JSON with a populated errors array was classified
C16_Witness ==
    /\ lastOp.op = "_fetch"
    /\ lastOp.value.status = 429 /\ lastOp.value.json
    /\ lastOp.value.errors = "populated"
    /\ lastOp.fetch.raised = "RateLimitError" /\ lastOp.fetch.status_code = {429}

\* C17: an exchange with a success status and a JSON body fails with an Api
\* error exactly when its errors array is populated; without an errors key,
\* or with an empty errors list, _fetch returns the body.
C17_ApiErrorIffPopulated ==
    (/\ lastOp.op = "_fetch"
     /\ lastOp.value.transport = "ok" /\ lastOp.value.status \in 200..299
     /\ lastOp.value.json)
    => /\ IsApi(lastOp.fetch) <=> lastOp.value.errors = "populated"
       /\ lastOp.value.errors \in {"absent", "empty"}
            => (lastOp.fetch.raised = None /\ lastOp.fetch.data = lastOp.value.data)

\* C18: no upstream call is repeated: a request awaiting its account lookup
\* has made one call, one awaiting its timeline two, a failed call ends the
\* request, and so a status request makes at most one call and a profile
\* request at most two.
C18_NoRetries ==
    \A p \in Requests :
        /\ req[p].pc = "await_user" => req[p].calls = 1
        /\ req[p].pc = "await_tweets" => req[p].calls = 2
        /\ req[p].endpoint = "status" => req[p].calls <= 1
        /\ req[p].endpoint = "profile" => req[p].calls <= 2
        /\ (/\ lastOp.op \in {"user_response", "tweets_response"} /\ lastOp.by = p
            /\ lastOp.fetch.raised # None)
           => req[p].pc = "done"
\* A profile request ended on a rate-limited timeline call after two calls,
\* and a status request ended on a failed lookup after one
C18_Witness ==
    \E p, q \in Requests :
        /\ lastOp.op = "tweets_response" /\ lastOp.by = p
        /\ lastOp.fetch.raised = "RateLimitError"
        /\ req[p].pc = "done" /\ req[p].calls = 2 /\ req[p].http = 429
        /\ req[q].endpoint = "status" /\ req[q].pc = "done" /\ req[q].calls = 1
        /\ req[q].http = 500

\* C19: every client a request builds is closed once by the time the
\* request is over, whichever way it ends: a request holds one open client
\* while it awaits an upstream call (the client of the call before is
\* closed) and none once it is done.
C19_ClientsClosed ==
    \A p \in Requests :
        /\ InFlight(p) => req[p].open = 1
        /\ ~InFlight(p) => req[p].open = 0
\* Both requests are over and hold no client: one ended on an exception of
\* the parser (data: null), the other on an upstream failure
C19_Witness ==
    \E p, q \in Requests :
        /\ req[p].pc = "done" /\ req[q].pc = "done" /\ p # q
        /\ req[p].open = 0 /\ req[q].open = 0
        /\ lastOp.op = "user_response" /\ lastOp.by = p
        /\ lastOp.fetch.raised = None /\ lastOp.fetch.data.shape = "null"
        /\ req[p].http = 500 /\ req[p].endpoint = "profile"
        /\ req[q].http \in {429, 502} /\ req[q].calls = 2

\* C20: a returned profile carries the user of the account lookup (id and
\* handle), whatever account the timeline envelope embeds, and the timeline
\* was requested with that user's id.
C20_AuthoritativeAccount ==
    \A p \in Requests :
        /\ req[p].pc = "await_tweets"
             => (req[p].asked = req[p].user.id /\ req[p].user.id = RestId(req[p].handle))
        /\ (req[p].endpoint = "profile" /\ req[p].pc = "done" /\ req[p].http = 200)
             => /\ req[p].body.kind = "profile"
                /\ req[p].body.user.id = req[p].user.id
                /\ req[p].body.user.username = req[p].user.username
                /\ req[p].body.user.id = RestId(req[p].handle)
                /\ req[p].asked = req[p].user.id
\* A profile was returned with the looked-up user although the timeline
\* envelope embedded another account, and one although it embedded none
C20_Witness ==
    \E p, q \in Requests :
        /\ p # q
        /\ lastOp.op = "tweets_response" /\ lastOp.by = p
        /\ lastOp.fetch.raised = None /\ lastOp.fetch.data.result
        /\ lastOp.fetch.data.rest_id = "99"
        /\ req[p].pc = "done" /\ req[p].http = 200
        /\ req[p].body.user.id = "42" /\ req[p].body.user.username = "alice"
        /\ req[q].pc = "done" /\ req[q].http = 200 /\ req[q].body.kind = "profile"
        /\ req[q].body.user.id = "42"

\* C11: the cache key of a call depends on the identity arguments alone: two
\* calls of the decorated operation with equal identity arguments hold the
\* same key, whichever client instance or credential makes the call and
\* whatever calls came before.
IdentityOf(args) == args[Len(args)].value
C11_KeyIgnoresReceiver ==
    \A p, q \in WrapperCalls :
        (/\ wr[p].pc = "awaiting" /\ wr[q].pc = "awaiting"
         /\ IdentityOf(wr[p].args) = IdentityOf(wr[q].args))
        => wr[p].key = wr[q].key
C11_Witness ==
    \E p, q \in WrapperCalls :
        /\ wr[p].pc = "awaiting" /\ wr[q].pc = "awaiting"
        /\ Len(wr[p].args) = 2 /\ Len(wr[q].args) = 2
        /\ wr[p].args[1].session # wr[q].args[1].session
        /\ IdentityOf(wr[p].args) = IdentityOf(wr[q].args)
        /\ wr[p].key = wr[q].key
        /\ lastOp.op = "wrapper_get" /\ lastOp.by = q
        /\ Rows # {}
(***************************************************************************)
(* Properties of the parser (checked under SpecParse)                      *)
(***************************************************************************)
\* the single-item entries of an instruction, all with available tweets
AllItems(instruction) ==
    /\ instruction.typename = "TimelineAddEntries"
    /\ \A i \in DOMAIN instruction.entries :
          /\ instruction.entries[i].typename = "TimelineTimelineItem"
          /\ ~_parse_tweet(instruction.entries[i].node).tweet.is_none
          /\ _parse_tweet(instruction.entries[i].node).raised = None
\* a feed of one pinned-entry instruction (available post) and one
\* bulk-entries instruction with two single-item entries, in either order
PinPlusTwo(feed) ==
    /\ Len(feed) = 2
    /\ \E i, j \in 1..2 :
          /\ i # j
          /\ feed[i].typename = "TimelinePinEntry"
          /\ _parse_tweet(feed[i].node).raised = None
          /\ ~_parse_tweet(feed[i].node).tweet.is_none
          /\ AllItems(feed[j]) /\ Len(feed[j].entries) = 2
\* the Post of a raw node as the feed presents it
PostOf(node, pinned) == [_parse_tweet(node).tweet EXCEPT !.pinned = pinned]
LastProfile == lastOp.op = "parse_profile" /\ lastOp.result.raised = None

\* C21: on a feed of one pinned-entry instruction plus one bulk-entries
\* instruction with two single-item entries, all posts available, the
\* timeline content has exactly 2 elements and the pinned Post is the pinned
\* instruction's Post.
C21_PinPlusTwoGivesTwo ==
    (lastOp.op = "parse_profile" /\ PinPlusTwo(lastOp.value)) =>
        /\ lastOp.result.raised = None
        /\ Len(lastOp.result.tweets.content) = 2
        /\ \E i \in 1..2 :
              /\ lastOp.value[i].typename = "TimelinePinEntry"
              /\ lastOp.result.pinned = PostOf(lastOp.value[i].node, TRUE)

\* The positions of a feed that carry a tweet node: <<i, 0, 0>> the pinned
\* entry of instruction i, <<i, e, 0>> the single item of its entry e,
\* <<i, e, m>> item m of its module entry e
EntrySlots(entry, i, e) ==
    IF entry.typename = "TimelineTimelineItem" THEN {<<i, e, 0>>}
    ELSE IF entry.typename = "TimelineTimelineModule"
    THEN {<<i, e, m>> : m \in {m \in DOMAIN entry.items :
                                 entry.items[m].typename = "TimelineTweet"}}
    ELSE {}
SlotsOf(feed, i) ==
    IF feed[i].typename = "TimelinePinEntry" THEN {<<i, 0, 0>>}
    ELSE IF feed[i].typename = "TimelineAddEntries"
    THEN UNION {EntrySlots(feed[i].entries[e], i, e) : e \in DOMAIN feed[i].entries}
    ELSE {}
RawSlots(feed) == UNION {SlotsOf(feed, i) : i \in DOMAIN feed}
NodeAt(feed, s) ==
    IF s[2] = 0 THEN feed[s[1]].node
    ELSE IF s[3] = 0 THEN feed[s[1]].entries[s[2]].node
    ELSE feed[s[1]].entries[s[2]].items[s[3]].node
Before(s, t) ==
    \/ s[1] < t[1]
    \/ s[1] = t[1] /\ s[2] < t[2]
    \/ s[1] = t[1] /\ s[2] = t[2] /\ s[3] < t[3]
\* the positions whose node yields a Post, and their rank in feed order
Slots(feed) == {s \in RawSlots(feed) : ~_parse_tweet(NodeAt(feed, s)).tweet.is_none}
Rank(feed, s) == Cardinality({t \in Slots(feed) : Before(t, s)}) + 1

\* C22: the content holds one single-element group per Post-yielding
\* position of the feed, in the order of instructions, entries and module
\* items; unavailable posts and unrecognised tags contribute nothing.
C22_ContentInFeedOrder ==
    LastProfile =>
        LET feed == lastOp.value
            content == lastOp.result.tweets.content
        IN  /\ Len(content) = Cardinality(Slots(feed))
            /\ \A s \in Slots(feed) :
                  content[Rank(feed, s)] = <<PostOf(NodeAt(feed, s), s[2] = 0)>>
C22_Witness ==
    /\ LastProfile
    /\ Len(lastOp.result.tweets.content) = 3
    /\ lastOp.result.tweets.content[1][1].id = 2
    /\ lastOp.result.tweets.content[2][1].id = 1
    /\ Cardinality(RawSlots(lastOp.value)) > 3
    /\ \E i \in DOMAIN lastOp.value : lastOp.value[i].typename = "TimelineClearCache"

\* the pinned-entry instructions of a feed that yield an available Post
Pins(feed) == {i \in DOMAIN feed : <<i, 0, 0>> \in Slots(feed)}

\* C23: the Profile's pinned Post is present exactly when some pinned-entry
\* instruction yields an available Post, it is the first such Post in feed
\* order, and no Post of a bulk-entries instruction is flagged pinned.
C23_PinnedIsFirstPinEntry ==
    LastProfile =>
        LET feed == lastOp.value
            content == lastOp.result.tweets.content
        IN  /\ lastOp.result.pinned.is_none <=> Pins(feed) = {}
            /\ \A i \in Pins(feed) :
                  (\A j \in Pins(feed) : i <= j) =>
                      lastOp.result.pinned = PostOf(feed[i].node, TRUE)
            /\ \A s \in Slots(feed) :
                  s[2] # 0 => /\ ~content[Rank(feed, s)][1].pinned
                              /\ lastOp.result.pinned # content[Rank(feed, s)][1]
C23_Witness ==
    /\ LastProfile
    /\ Len(lastOp.value) = 2
    /\ lastOp.value[1].typename = "TimelineAddEntries"
    /\ lastOp.value[2].typename = "TimelinePinEntry"
    /\ Len(lastOp.result.tweets.content) = 3
    /\ ~lastOp.result.pinned.is_none
    /\ lastOp.result.pinned.id = 2
    /\ lastOp.result.tweets.content[1][1].id = 2

\* the values of the cursor-tagged entries of the bulk-entries instructions
\* whose entry identifier contains the given parts
CursorValues(feed, parts) ==
    {feed[s[1]].entries[s[2]].value :
        s \in {t \in UNION {{<<i, e>> : e \in DOMAIN feed[i].entries} : i \in DOMAIN feed} :
                 /\ feed[t[1]].typename = "TimelineAddEntries"
                 /\ feed[t[1]].entries[t[2]].typename = "TimelineTimelineCursor"
                 /\ Contains(feed[t[1]].entries[t[2]].entryId, parts)}}

\* C24: the cursors come only from cursor-tagged entries of bulk-entries
\* instructions: the top cursor is the value of such an entry whose
\* identifier contains "cursor-top" (the bottom cursor: "cursor-bottom"),
\* entries tagged single item or module never set a cursor, cursor entries
\* yield no Post, and without a cursor entry both cursors are empty.
C24_CursorsFromCursorEntriesOnly ==
    LastProfile =>
        LET feed == lastOp.value
            tops == CursorValues(feed, <<"cursor", "top">>)
            bottoms == CursorValues(feed, <<"cursor", "bottom">>)
        IN  /\ lastOp.result.tweets.top \in (IF tops = {} THEN {""} ELSE tops)
            /\ lastOp.result.tweets.bottom \in (IF bottoms = {} THEN {""} ELSE bottoms)
            /\ Len(lastOp.result.tweets.content) = Cardinality(Slots(feed))

\* the tier the priority rule gives
ReferenceTier(user_data) ==
    IF user_data.verified # "true" THEN "NONE"
    ELSE CASE user_data.verified_type = "Business" -> "BUSINESS"
           [] user_data.verified_type = "Government" -> "GOVERNMENT"
           [] OTHER -> "BLUE"

\* C25: the verification tier is Business for verified=true with tag
\* "Business", Government for verified=true with tag "Government", Blue for
\* verified=true with any other or no tag, and None for verified false or
\* missing whatever the tag; it is always one of the four tiers.
C25_VerifiedTier ==
    lastOp.op = "_parse_verified_type" =>
        /\ lastOp.result = ReferenceTier(lastOp.value)
        /\ lastOp.result \in {"NONE", "BLUE", "BUSINESS", "GOVERNMENT"}
C25_Witness ==
    /\ lastOp.op = "_parse_verified_type"
    /\ lastOp.value.verified = "false"
    /\ lastOp.value.verified_type = "Government"
    /\ lastOp.result = "NONE"

\* the node is discriminated unavailable, directly or under the wrapper key
IsUnavailable(node) ==
    IF node.tweet # <<>> THEN node.tweet[1].typename = "TweetUnavailable"
    ELSE node.typename = "TweetUnavailable"
IsEmpty(node) == IF node.tweet # <<>> THEN node.tweet[1].empty ELSE node.empty

\* C26: a node discriminated unavailable (after unwrapping) parses to absent
\* without an error; in a timeline it adds nothing to the content, and a
\* feed whose pinned entries are all unavailable gives a Profile without
\* pinned Post.
C26_UnavailableIsAbsent ==
    /\ (lastOp.op = "_parse_tweet" /\ IsUnavailable(lastOp.value)) =>
          lastOp.result = [raised |-> None, tweet |-> NoTweet]
    /\ LastProfile =>
          LET feed == lastOp.value
              kept == {s \in RawSlots(feed) : ~IsUnavailable(NodeAt(feed, s))
                                              /\ ~IsEmpty(NodeAt(feed, s))}
          IN  /\ Len(lastOp.result.tweets.content) = Cardinality(kept)
              /\ (\A s \in RawSlots(feed) : s[2] = 0 => IsUnavailable(NodeAt(feed, s)))
                    => lastOp.result.pinned.is_none
C26_Witness ==
    /\ LastProfile
    /\ Len(lastOp.value) = 2
    /\ lastOp.value[1].typename = "TimelinePinEntry"
    /\ IsUnavailable(lastOp.value[1].node)
    /\ lastOp.value[2].typename = "TimelineAddEntries"
    /\ \E e \in DOMAIN lastOp.value[2].entries :
          /\ lastOp.value[2].entries[e].typename = "TimelineTimelineItem"
          /\ IsUnavailable(lastOp.value[2].entries[e].node)
    /\ Len(lastOp.result.tweets.content) = 1
    /\ lastOp.result.pinned.is_none

\* C27: the reply-to id and the thread id are parsed only from a purely
\* numeric string and are 0 otherwise; a non-numeric or missing id string
\* never makes the parse of the tweet, or of a timeline holding it, fail.
C27_IdsNumericOrZero ==
    /\ (lastOp.op = "_parse_tweet" /\ ~IsUnavailable(lastOp.value)
            /\ ~IsEmpty(lastOp.value)) =>
          LET node == IF lastOp.value.tweet # <<>> THEN lastOp.value.tweet[1]
                      ELSE lastOp.value
              reply == node.in_reply_to_status_id_str
              thread == node.conversation_id_str
          IN  /\ lastOp.result.raised = None
              /\ ~lastOp.result.tweet.is_none
              /\ lastOp.result.tweet.reply_id =
                    (IF reply.has /\ isdigit(reply.str) THEN int(reply.str) ELSE 0)
              /\ lastOp.result.tweet.thread_id =
                    (IF thread.has /\ isdigit(thread.str) THEN int(thread.str) ELSE 0)
    /\ lastOp.op = "parse_profile" => lastOp.result.raised = None

(***************************************************************************)
(* Properties of loading and rotating (checked under SpecPool)             *)
(***************************************************************************)
\* C28: loading fails exactly when the file is missing or has no valid
\* line; every malformed line (invalid JSON, JSON that is not an object, an
\* object without oauth_token or oauth_token_secret) is skipped, and the
\* loaded pool is exactly the valid lines in file order.
C28_LoadFailsOnlyWithoutValidLine ==
    /\ loadError # None <=> (~file.exists \/ LoadOrder = <<>>)
    /\ loadError = None =>
          sessions = [k \in 1..Len(LoadOrder) |-> _TwitterSession(LoadOrder[k].tok)]

\* C29: after a successful load the credential list is non-empty and is the
\* loaded list, the rotation index lies in 0..N-1, and get_session()
\* changes only the index and the log of issued credentials.
C29_PoolImmutableIndexInRange ==
    loadError = None =>
        /\ sessions # <<>>
        /\ sessions = [k \in 1..Len(LoadOrder) |-> _TwitterSession(LoadOrder[k].tok)]
        /\ _current_index \in 0..(Len(sessions) - 1)
        /\ (_current_index + 1) \in DOMAIN sessions
C29_Witness ==
    /\ loadError = None
    /\ Len(sessions) >= 2
    /\ Len(file.lines) > Len(sessions)
    /\ Len(issued) = Len(sessions)
    /\ _current_index = 0

(***************************************************************************)
(* Credentials of the upstream calls (checked under SpecGateway)           *)
(***************************************************************************)
\* the number of get_session() calls the step of a request makes
TakenBy(p) ==
    CASE lastOp'.op = "request" -> 1
      [] lastOp'.op = "user_response" ->
            IF /\ req[p].endpoint = "profile"
               /\ get_user_data(lastOp'.fetch).raised = None
               /\ get_user_data(lastOp'.fetch).user # NoUser
            THEN 1 ELSE 0
      [] OTHER -> 0

\* C30: each upstream call is signed with the credential one get_session()
\* issued for it: the arrival of a request takes one credential and signs
\* the account lookup with it; a profile request whose lookup finds the
\* account takes the next issued credential for the timeline call; a status
\* request, a profile request ending in 404 or in a failed lookup, and the
\* end of the timeline call take none.
C30_SignedWithIssuedCredential ==
    [][\A p \in Requests :
          req'[p].pc # req[p].pc =>
              /\ lastOp'.by = p
              /\ Len(issued') = Len(issued) + TakenBy(p)
              /\ req'[p].calls = req[p].calls + TakenBy(p)
              /\ TakenBy(p) = 1 =>
                    /\ InFlight(p)'
                    /\ issued'[Len(issued')].session = sessions[_current_index + 1]
                    /\ req'[p].session.oauth_token
                          = issued'[Len(issued')].session.oauth_token
                    /\ req'[p].session.oauth_token_secret
                          = issued'[Len(issued')].session.oauth_token_secret
                    /\ _current_index' = (_current_index + 1) % Len(sessions)
              /\ TakenBy(p) = 0 =>
                    /\ req'[p].pc = "done"
                    /\ _current_index' = _current_index
                    /\ req'[p].calls =
                          (IF lastOp'.op = "tweets_response" THEN 2 ELSE 1)]_vars
\* On a pool of three a status request took the first credential and is
\* over; a profile request took the second and now awaits its timeline call,
\* signed with the third
C30_Witness ==
    \E p, q \in Requests :
        /\ p # q
        /\ Len(sessions) = 3
        /\ \A i, j \in 1..3 : i # j => sessions[i] # sessions[j]
        /\ req[q].endpoint = "status" /\ req[q].pc = "done" /\ req[q].calls = 1
        /\ req[p].endpoint = "profile" /\ req[p].pc = "await_tweets"
        /\ req[p].calls = 2
        /\ Len(issued) = 3
        /\ issued[1].idx = 0 /\ issued[2].idx = 1 /\ issued[3].idx = 2
        /\ req[p].session.oauth_token = sessions[3].oauth_token
        /\ req[p].session.oauth_token_secret = sessions[3].oauth_token_secret
        /\ _current_index = 0

(***************************************************************************)
(* Failures of the decorated coroutine (checked under SpecWrapper)         *)
(***************************************************************************)
\* every row of the table was written by the set of a call that returned
WrittenByReturns ==
    \A r \in Rows : /\ lastSet[r.key] = [value |-> Loads(r.value), time |-> r.timestamp]
                    /\ Loads(r.value) \notin ProducerErrors

\* C31: when the decorated coroutine raises, the wrapper performs no set:
\* the exception leaves the call, both tables stay as they were, every row
\* is still one written by a call that returned, and an identical call made
\* next on a table without a row for the key misses and awaits the
\* coroutine again.
C31_FailureStoresNothing ==
    [][/\ lastOp'.op = "wrapper_raise" =>
             /\ wr[lastOp'.by].pc = "awaiting"
             /\ wr'[lastOp'.by].pc = "raised"
             /\ lastOp'.key = wr[lastOp'.by].key
             /\ lastOp'.value \in ProducerErrors
             /\ pgRows' = pgRows /\ sqRows' = sqRows
             /\ lastSet' = lastSet
             /\ WrittenByReturns'
       /\ (/\ lastOp.op = "wrapper_raise"
           /\ lastOp'.op = "wrapper_get" /\ lastOp'.key = lastOp.key
           /\ RowsFor(Rows, lastOp.key) = {}) =>
             /\ lastOp'.value = None
             /\ wr'[lastOp'.by].pc = "awaiting"
             /\ wr'[lastOp'.by].key = lastOp.key]_vars
\* A call has just failed on a key that has never been stored, while the
\* other key holds the row another call wrote
C31_Witness ==
    /\ lastOp.op = "wrapper_raise" /\ lastOp.value = "RateLimitError"
    /\ wr[lastOp.by].pc = "raised"
    /\ RowsFor(Rows, lastOp.key) = {}
    /\ lastSet[lastOp.key] = NeverSet
    /\ \E k \in Keys : k # lastOp.key /\ RowsFor(Rows, k) # {}

(***************************************************************************)
(* Expiry over time, reads, and the two variants (checked under SpecCache) *)
(***************************************************************************)
\* neither table holds a row for k
AbsentFor(k) == RowsFor(pgRows, k) = {} /\ RowsFor(sqRows, k) = {}
SetOf(k) == lastOp.op = "set" /\ lastOp.key = k

\* C32: expiry is monotone per key: a get(k) that returns absent leaves no
\* row for k, and while no row is stored for k every get(k), whatever it
\* draws, returns absent and stores none, until the next set(k, .).
C32_AbsentUntilNextSet ==
    [][\A k \in Keys :
         /\ (lastOp'.op = "get" /\ lastOp'.key = k /\ lastOp'.pg = None) =>
               RowsFor(pgRows', k) = {}
         /\ (lastOp'.op = "get" /\ lastOp'.key = k /\ lastOp'.sq = None) =>
               RowsFor(sqRows', k) = {}
         /\ (lastOp'.op = "get" /\ lastOp'.key = k
                /\ lastOp'.pg = None /\ lastOp'.sq = None) => AbsentFor(k)'
         /\ (AbsentFor(k) /\ ~SetOf(k)') =>
               /\ AbsentFor(k)'
               /\ (lastOp'.op = "get" /\ lastOp'.key = k) =>
                     lastOp'.pg = None /\ lastOp'.sq = None
      ]_vars
\* A get drew an effective TTL that covers the age of the latest set and
\* still returned absent: an earlier reader had judged the entry expired
C32_Witness ==
    \E k \in Keys :
        /\ GetOf(k) /\ ttl_jitter > 0
        /\ Age(k) <= lastOp.eff
        /\ lastOp.pg = None /\ lastOp.sq = None
        /\ AbsentFor(k)

\* C33: a get(k) that returns a value leaves both tables as they were: the
\* row keeps its value and the timestamp of its last set, so the value
\* served is the one last set and is served at an age of at most
\* ttl + jitter, however often the key is read.
C33_ReadsChangeNothing ==
    [][\A k \in Keys :
         (lastOp'.op = "get" /\ lastOp'.key = k) =>
           /\ lastOp'.pg # None =>
                 /\ pgRows' = pgRows
                 /\ RowsFor(pgRows', k) = {Row(k, lastSet[k].value, lastSet[k].time)}
                 /\ lastOp'.pg = lastSet[k].value
                 /\ Age(k) <= ttl + ttl_jitter
           /\ lastOp'.sq # None =>
                 /\ sqRows' = sqRows
                 /\ RowsFor(sqRows', k) = {Row(k, lastSet[k].value, lastSet[k].time)}
                 /\ lastOp'.sq = lastSet[k].value
                 /\ Age(k) <= ttl + ttl_jitter
           /\ lastSet' = lastSet /\ now' = now
      ]_vars
\* A get served an entry at the oldest age at which it can be served, from
\* a row still stamped with the time of its set, next to a row of the other
\* key
C33_Witness ==
    \E k \in Keys :
        /\ GetOf(k) /\ ttl_jitter > 0
        /\ lastOp.pg = lastSet[k].value /\ lastOp.sq = lastSet[k].value
        /\ Age(k) = ttl + ttl_jitter
        /\ RowsFor(pgRows, k) = {Row(k, lastSet[k].value, lastSet[k].time)}
        /\ RowsFor(sqRows, k) = {Row(k, lastSet[k].value, lastSet[k].time)}
        /\ Cardinality(pgRows) = 2 /\ Cardinality(sqRows) = 2

\* C34: the two variants, run side by side on the same operations with the
\* same clock readings and jitter draws, return the same results and hold
\* the same rows after every step.
C34_VariantsEquivalent ==
    /\ pgRows = sqRows
    /\ lastOp.op \in {"get", "set", "clear_expired"} => lastOp.pg = lastOp.sq
\* clear_expired has just run on tables holding a row whose age is exactly
\* ttl + jitter: both variants kept it and removed nothing
C34_Witness ==
    /\ lastOp.op = "clear_expired"
    /\ ttl_jitter > 0
    /\ lastOp.pg = {} /\ lastOp.sq = {}
    /\ pgRows = sqRows /\ Cardinality(sqRows) = 2
    /\ \E r \in sqRows : now - r.timestamp = ttl + ttl_jitter
====
